---- MODULE Spec2Model ----
(***************************************************************************)
(* GeneratorScene (packages/core/src/scenes/GeneratorScene.ts): the scene  *)
(* lifecycle state machine, its next()/reset()/recalculate()/render()      *)
(* drivers and the pending-handle registry they consume.                   *)
(*                                                                         *)
(* JavaScript runs one call to completion between two awaits: `running`    *)
(* names the call that is executing synchronously (0: the event loop is    *)
(* idle), and a call suspended at an await continues only from there.      *)
(* The generator and the draw callback are user code: what they do in one  *)
(* step (enter* calls, registering pending handles, the value yielded, an  *)
(* exception) is chosen nondeterministically.                              *)
(*                                                                         *)
(* MoblurRenderer (packages/core/src/app/MoblurRenderer.ts): the calls     *)
(* render() makes on the playback manager and on the render callback.      *)
(***************************************************************************)
EXTENDS Integers, Sequences, FiniteSets, TLC

\* ------------------------------------------------------------------ bounds
\* The generator yields at most MaxSteps times before it completes.
MaxSteps == 2
\* The player seeks to frames 0..MaxSeek.
MaxSeek == 0
\* Scene calls (enter*, collectPromise) user code makes in one step.
MaxEffects == 1
\* Pending handles registered and not yet consumed.
MaxPending == 1
\* Calls the player makes in one run.
MaxOps == 3
\* The retry bound of render().
MaxRenderIterations == 10
\* The motion blur samples a renderer is configured with.
MaxSamples == 3
\* No frame exceeds MaxFrame.
MaxFrame == MaxSeek + MaxSteps + 1

CallIds == {1}
\* The calls of callers that do not await one another's calls.
AsyncCallIds == {1, 2}

SceneState == {"Initial", "AfterTransitionIn", "CanTransitionOut", "Finished"}
EnterNames == {"enterInitial", "enterAfterTransitionIn", "enterCanTransitionOut"}
\* How the promise of a pending handle settles, if ever.
Fates == {"fulfils", "rejects", "never"}
\* What a generator step yields: nothing (the frame ends), a lazily
\* promisable value, a native promise, or anything else.
YieldKinds == {"nothing", "promisable", "promise", "invalid"}
\* How a generator step ends: a yield, completion, an exception.
Outcomes == YieldKinds \cup {"return", "throw"}
\* What user code does to the scene in one step: enter* calls and
\* collectPromise calls (named by the fate of the promise), in order.
UserEffects == UNION {[1..n -> EnterNames \cup Fates] : n \in 0..MaxEffects}
\* The draw callback only reads: it registers handles.
DrawEffects == UNION {[1..n -> Fates] : n \in 0..MaxEffects}

VARIABLES
    state,      \* this.state
    cached,     \* this.cached
    cache,      \* this.cache.current
    runner,     \* this.runner, the root generator (live = FALSE: null)
    playback,   \* this.playback (frame)
    promises,   \* DependencyContext.promises: handles not yet consumed
    calls,      \* the async calls of the scene, by call id
    running,    \* the call executing synchronously, 0 when none
    logger,     \* messages logged since the player's last call began
    events,     \* dispatches since the player's last call began
    entered,    \* the enter* call the player has just made, if any
    context,    \* the current-scene and current-playback stacks of utils
    ops,        \* calls the player has made
    hist,       \* the values fixed by the recalculation that set cached
    random,     \* this.random: the seed's stream, by the numbers drawn
    counters,   \* this.counters: the keys taken
    runnerFactory, \* this.runnerFactory: <<>> for user code that may do
                \* anything, else what the user code is known to do
    record,     \* the steps observed of a runner factory that is fixed
    moblur      \* a MoblurRenderer, its render() call and its playback manager

vars == <<state, cached, cache, runner, playback, promises, calls, running,
          logger, events, entered, context, ops, hist, random, counters,
          runnerFactory, record, moblur>>

\* ------------------------------------------------------------ data model
CachedSceneData(first, transition, dur, last) ==
    [firstFrame |-> first, transitionDuration |-> transition,
     duration |-> dur, lastFrame |-> last]

\* new Random(this.meta.seed.get()): nothing drawn yet.
NewRandom == [drawn |-> 0]
\* this.counters = {}
NoCounters == [taken |-> 0]
\* User code of which nothing is known.
AnyFactory == <<>>
\* User code that is a function of its own position and of the scene-owned
\* state it reads; what it does is learnt as it runs.
FixedFactory == <<{}>>
NoRecord == [seen |-> <<>>, diverged |-> FALSE, resets |-> 0, discarded |-> <<>>]

NoRunner == [live |-> FALSE, yields |-> 0, done |-> FALSE, started |-> FALSE]
NewRunner == [NoRunner EXCEPT !.live = TRUE]

\* Dispatches per dispatcher, the cache value last published, what the
\* subscribers of the reset and recalculated events found when they were
\* dispatched, and the frame at which enterAfterTransitionIn() first took
\* effect.
NoEvents == [cache |-> 0, recalculated |-> 0, reset |-> 0, thread |-> 0,
             reloaded |-> 0, published |-> <<>>, resetSaw |-> <<>>,
             recalculatedSaw |-> <<>>, transitionedIn |-> <<>>]

NoEnter == [name |-> "none", from |-> "Initial"]

\* The context stacks: what is pushed now, and what was pushed when a
\* callback of execute() last ran.
NoContext == [stack |-> <<>>, seen |-> <<>>]

\* One async call: where it is suspended (pc), the awaits of its callers
\* (ret) and its locals. at: the playback frame when the player made the
\* call; done: result.done of the last runner.next(); nexts: the next()
\* calls it has made.
IdleCall ==
    [op |-> "none", pc |-> "idle", ret |-> <<>>, at |-> 0, done |-> FALSE,
     nexts |-> 0,
     promises |-> <<>>, iterations |-> 0, draws |-> 0, firstClean |-> 0,
     setFrames |-> <<>>, path |-> "none", updates |-> 0, cause |-> "none",
     sent |-> "none"]

NewCall(op) == [IdleCall EXCEPT !.op = op, !.at = playback.frame]

Settled(c) == calls[c].pc \in {"idle", "done", "threw"}
\* No call is in flight: the player makes its calls one after another.
Quiet == running = 0 /\ \A c \in DOMAIN calls : Settled(c)
\* More than one call may be in progress.
Overlapping == Cardinality(DOMAIN calls) > 1
\* The slot a new call takes: the first one whose call has settled.
Free(c) == Settled(c) /\ \A d \in DOMAIN calls : d < c => ~Settled(d)
\* The player may make its next call.
Ready == running = 0 /\ ops < MaxOps /\ (Overlapping \/ Quiet)

\* The logger: how often each message was logged, and the count the debug
\* message "render iterations: n" carried.
NoLogs == [unexpected |-> 0, invalid |-> 0, unready |-> 0, iterations |-> <<>>]
\* warn: "Scene ... in an unexpected state", n times
WarnUnexpected(log, n) == [log EXCEPT !.unexpected = @ + n]
\* warn: "Invalid value yielded by the scene."
WarnInvalid(log) == [log EXCEPT !.invalid = @ + 1]
\* error: "Tried to access an asynchronous property before the node was ready."
ErrorUnready(log) == [log EXCEPT !.unready = @ + 1]
\* debug: "render iterations: n"
DebugIterations(log, n) == [log EXCEPT !.iterations = Append(@, n)]

\* ValueDispatcher.current = value: retains the value and notifies.
Publish(ev, value) == [ev EXCEPT !.cache = @ + 1, !.published = <<value>>]

\* A call returns to its caller's await, or settles when it has none.
Returned(f) ==
    IF f.ret = <<>> THEN [f EXCEPT !.pc = "done"]
    ELSE [f EXCEPT !.pc = Head(f.ret), !.ret = Tail(f.ret)]
\* An exception unwinds every caller: none of them catches.
Thrown(f, cause) ==
    [IdleCall EXCEPT !.op = f.op, !.pc = "threw", !.cause = cause]

\* private sampleCount: number = 1; private duration: number = 1; no
\* render() in flight. A speed is the fraction num/den; the playback manager
\* stands at a frame, advanceTime() called `advances` times since. log: the
\* calls render() has made; before: the playback as the call found it.
NewMoblur ==
    [sampleCount |-> 1, duration |-> 1, pc |-> "idle", i |-> 0,
     currentFrame |-> 0, previousSpeed |-> [num |-> 1, den |-> 1],
     playback |-> [speed |-> [num |-> 1, den |-> 1], frame |-> 0, advances |-> 0],
     log |-> <<>>,
     before |-> [speed |-> [num |-> 1, den |-> 1], frame |-> 0]]

Begin(ids, factory) ==
    /\ state = "Initial"
    /\ cached = FALSE
    /\ cache = CachedSceneData(0, 0, 0, 0)
    /\ runner = NoRunner
    /\ playback = [frame |-> 0]
    /\ promises = <<>>
    /\ calls = [c \in ids |-> IdleCall]
    /\ running = 0
    /\ logger = NoLogs
    /\ events = NoEvents
    /\ entered = NoEnter
    /\ context = NoContext
    /\ ops = 0
    /\ hist = [frozen |-> <<>>, cachedCalls |-> 0]
    /\ random = NewRandom
    /\ counters = NoCounters
    /\ runnerFactory = factory
    /\ record = NoRecord
    /\ moblur = NewMoblur

\* The scene as constructed, driven by a player that awaits every call.
Init == Begin(CallIds, AnyFactory)

\* What a synchronous stretch of code reads and writes besides the cache:
\* the values as they are when the stretch begins (frame: the playback
\* frame user code runs at).
Now ==
    [state |-> state, runner |-> runner, promises |-> promises,
     logger |-> logger, events |-> events, entered |-> NoEnter,
     context |-> context, frame |-> playback.frame,
     random |-> random, counters |-> counters,
     runnerFactory |-> runnerFactory, record |-> record]
\* The same at the start of a call of the player.
Fresh == [Now EXCEPT !.logger = NoLogs, !.events = NoEvents]

\* The stretch ends: call c is left as f, the scene as u.
Commit(c, f, u) ==
    /\ calls' = [calls EXCEPT ![c] = f]
    /\ state' = u.state
    /\ runner' = u.runner
    /\ promises' = u.promises
    /\ logger' = u.logger
    /\ events' = u.events
    /\ entered' = u.entered
    /\ context' = u.context
    /\ random' = u.random
    /\ counters' = u.counters
    /\ runnerFactory' = u.runnerFactory
    /\ record' = u.record
    /\ moblur' = moblur

\* ----------------------------------------------------- lifecycle guards
\* A scene that could not transition out once it has finished.
canTransitionOutUnlessFinished == state = "CanTransitionOut"

canTransitionOut == state \in {"CanTransitionOut", "Finished"}
isFinished == state = "Finished"
isCached == cached

\* A scene that could be sent back to Initial from any state.
enterInitialFromAnyState(s) == "Initial"

\* The three guarded transitions: the state after the call and the number
\* of warnings it logs.
enterInitialState(s) == IF s = "AfterTransitionIn" THEN "Initial" ELSE s
enterInitialWarns(s) == IF s = "AfterTransitionIn" THEN 0 ELSE 1

enterAfterTransitionInState(s) == IF s = "Initial" THEN "AfterTransitionIn" ELSE s
enterAfterTransitionInWarns(s) == IF s = "Initial" THEN 0 ELSE 1

\* A scene that could still transition out after it has finished.
enterCanTransitionOutFromFinished(s) ==
    IF s \in {"AfterTransitionIn", "Initial", "Finished"}
    THEN "CanTransitionOut" ELSE s

enterCanTransitionOutState(s) ==
    IF s \in {"AfterTransitionIn", "Initial"} THEN "CanTransitionOut" ELSE s
enterCanTransitionOutWarns(s) ==
    IF s \in {"AfterTransitionIn", "Initial"} THEN 0 ELSE 1

EnterState(name, s) ==
    CASE name = "enterInitial" -> enterInitialState(s)
      [] name = "enterAfterTransitionIn" -> enterAfterTransitionInState(s)
      [] name = "enterCanTransitionOut" -> enterCanTransitionOutState(s)

EnterWarns(name, s) ==
    CASE name = "enterInitial" -> enterInitialWarns(s)
      [] name = "enterAfterTransitionIn" -> enterAfterTransitionInWarns(s)
      [] name = "enterCanTransitionOut" -> enterCanTransitionOutWarns(s)

\* An enter* call on the scene u: the state, the log, and what it did.
Enter(name, u) ==
    [u EXCEPT !.state = EnterState(name, u.state),
              !.logger = WarnUnexpected(@, EnterWarns(name, u.state)),
              !.events.transitionedIn =
                  IF /\ name = "enterAfterTransitionIn"
                     /\ EnterState(name, u.state) # u.state
                     /\ @ = <<>>
                  THEN <<u.frame>> ELSE @]

\* DependencyContext.collectPromise: user code reads a value that is not
\* ready and registers a pending handle.
collectPromise(fate, u) == [u EXCEPT !.promises = Append(@, fate)]

\* DependencyContext.consumePromises leaves the registry empty.
consumePromises(u) == [u EXCEPT !.promises = <<>>]

Collects(effects) == {i \in 1..Len(effects) : effects[i] \in Fates}

\* The scene calls user code makes in one step, in order.
RECURSIVE RunEffects(_, _)
RunEffects(effects, u) ==
    IF effects = <<>> THEN u
    ELSE RunEffects(Tail(effects),
                    IF Head(effects) \in EnterNames
                    THEN Enter(Head(effects), u)
                    ELSE collectPromise(Head(effects), u))

\* startScene(this); startPlayback(this.playback)
startScene(u) == [u EXCEPT !.context.stack = Append(@, "scene")]
startPlayback(u) == [u EXCEPT !.context.stack = Append(@, "playback")]
\* endPlayback(this.playback); endScene(this)
endPlayback(u) ==
    [u EXCEPT !.context.stack =
        IF @ # <<>> /\ @[Len(@)] = "playback" THEN SubSeq(@, 1, Len(@) - 1) ELSE @]
endScene(u) ==
    [u EXCEPT !.context.stack =
        IF @ # <<>> /\ @[Len(@)] = "scene" THEN SubSeq(@, 1, Len(@) - 1) ELSE @]

\* An execute() that would restore the context only on a normal return.
executeWithoutFinally(u, effects, outcome) ==
    LET inside == startPlayback(startScene(u))
        after == RunEffects(effects, [inside EXCEPT !.context.seen = inside.context.stack])
    IN  IF outcome = "throw" THEN after ELSE endScene(endPlayback(after))

\* execute(callback): the callback runs between the pushes and the pops of
\* the finally block, whether it returns or throws.
execute(u, effects, outcome) ==
    LET inside == startPlayback(startScene(u))
        after == RunEffects(effects, [inside EXCEPT !.context.seen = inside.context.stack])
    IN  endScene(endPlayback(after))

\* The player (or a test) calls an enter* method between two driver calls.
ExternalEnter(name) ==
    /\ Ready
    /\ ops' = ops + 1
    /\ Commit(1, IdleCall,
              [Enter(name, Fresh) EXCEPT !.entered =
                  [name |-> name, from |-> state]])
    /\ UNCHANGED <<cached, cache, playback, running, hist>>

\* The player moves the playhead between two calls.
Seek(f) ==
    /\ Ready
    /\ ops' = ops + 1
    /\ f # playback.frame
    /\ playback' = [frame |-> f]
    /\ Commit(1, IdleCall, Fresh)
    /\ UNCHANGED <<cached, cache, running, hist>>

\* reload(): the description changed, the cache is stale.
Reload ==
    /\ Ready
    /\ ops' = ops + 1
    /\ cached' = FALSE
    /\ Commit(1, IdleCall, [Fresh EXCEPT !.events.reloaded = 1])
    /\ hist' = [hist EXCEPT !.frozen = <<>>, !.cachedCalls = 0]
    /\ UNCHANGED <<cache, playback, running>>

\* --------------------------------------------------------------- next()
\* What user code can tell one step from another by: the position of the
\* generator and the scene-owned state it reads.
Position(u) == <<u.runner.yields, u.random.drawn, u.counters.taken>>

\* A fixed runner factory does at a position what it did there before.
Plays(u, effects, outcome) ==
    IF u.runnerFactory = AnyFactory THEN TRUE
    ELSE \A known \in u.runnerFactory[1] :
            known.at = Position(u) => known.does = <<effects, outcome>>

\* What the step is learnt to do, and what is observed of the i-th step since
\* reset(): the value yielded and the state the step leaves; a step that
\* differs from the i-th step of an earlier run is marked.
Observed(before, after, effects, outcome) ==
    IF before.runnerFactory = AnyFactory THEN after
    ELSE LET i == before.runner.yields + 1
             obs == [value |-> outcome, state |-> after.state]
         IN  [after EXCEPT
                !.runnerFactory =
                    <<before.runnerFactory[1] \cup
                      {[at |-> Position(before), does |-> <<effects, outcome>>]}>>,
                !.record.seen = IF i > Len(@) THEN Append(@, obs) ELSE @,
                !.record.diverged =
                    @ \/ (i <= Len(before.record.seen)
                             /\ before.record.seen[i] # obs)]

\* One step of the generator on the scene u: the root thread is announced
\* when the generator first runs, user code makes its scene calls, and the
\* step ends in `outcome`.
GenStep(u, effects, outcome) ==
    LET announced == IF u.runner.started THEN u
                     ELSE [u EXCEPT !.runner.started = TRUE,
                                    !.events.thread = @ + 1]
        drawn == [announced EXCEPT !.random.drawn = @ + 1,
                                   !.counters.taken = @ + 1]
        v == Observed(u, execute(drawn, effects, outcome), effects, outcome)
    IN  IF outcome \in YieldKinds
        THEN [v EXCEPT !.runner.yields = @ + 1]
        ELSE [v EXCEPT !.runner.done = TRUE]

\* A next() that would forget to finish the scene.
FinishNever(f, u) == u

\* if (result.done) this.state = Finished
FinishIfDone(f, u) == IF f.done THEN [u EXCEPT !.state = "Finished"] ELSE u

\* next() after a runner.next() that ended in `outcome`, up to its next
\* await or its return.
AfterStep(c, f, u, outcome) ==
    LET g == [f EXCEPT !.updates = @ + 1, !.done = (outcome = "return")]
    IN  CASE outcome = "throw" ->
                Commit(c, Thrown(f, "user"), u) /\ running' = 0
          [] outcome \in {"promisable", "promise"} ->
                Commit(c, [g EXCEPT !.pc = "next_await_value"], u) /\ running' = 0
          [] outcome = "invalid" ->
                /\ Commit(c, [g EXCEPT !.pc = "next_invalid"],
                          [u EXCEPT !.logger = WarnInvalid(@)])
                /\ running' = c
          [] outcome \in {"nothing", "return"} ->
                IF Len(u.promises) > 0
                THEN /\ Commit(c, [g EXCEPT !.promises = u.promises,
                                            !.pc = "next_await_handles"],
                               consumePromises(u))
                     /\ running' = 0
                ELSE /\ Commit(c, Returned(g), FinishIfDone(g, u))
                     /\ running' = 0

\* execute(() => this.runner.next(value)) and what follows: a completed
\* generator answers done at once, a live one runs one step of user code.
\* `value` is what the generator is resumed with: "undefined", the
\* "resolved" value of what was awaited, or the "yielded" value itself.
RunStep(c, f, u, value) ==
    LET g == [f EXCEPT !.sent = value]
    IN  \/ /\ u.runner.done
           /\ AfterStep(c, g, execute(u, <<>>, "return"), "return")
        \/ /\ ~u.runner.done
           /\ \E effects \in UserEffects, outcome \in Outcomes :
                /\ outcome \in YieldKinds => u.runner.yields < MaxSteps
                /\ Len(u.promises) + Cardinality(Collects(effects)) <= MaxPending
                /\ Plays(u, effects, outcome)
                /\ AfterStep(c, g, GenStep(u, effects, outcome), outcome)

\* A next() that would not test for a missing runner.
StartNextWithoutRunner(c) ==
    /\ Ready
    /\ ops' = ops + 1
    /\ RunStep(c, [NewCall("next") EXCEPT !.nexts = 1], Fresh, "undefined")
    /\ UNCHANGED <<cached, cache, playback, hist>>

\* next() called by the player.
StartNext(c) ==
    /\ Ready
    /\ ops' = ops + 1
    /\ IF ~runner.live
       THEN Commit(c, Returned([NewCall("next") EXCEPT !.nexts = 1]), Fresh)
            /\ running' = 0
       ELSE RunStep(c, [NewCall("next") EXCEPT !.nexts = 1], Fresh, "undefined")
    /\ UNCHANGED <<cached, cache, playback, hist>>

\* A next() that would resume the generator with nothing after a value it
\* does not recognise.
ResumedWithNothing == "undefined"

\* runner.next(result.value): the value goes back as it was yielded.
ResumedWithSame == "yielded"

\* The value that is neither promisable nor a promise is handed back.
NextInvalidValue(c) ==
    /\ running = c
    /\ calls[c].pc = "next_invalid"
    /\ RunStep(c, calls[c], Now, ResumedWithSame)
    /\ UNCHANGED <<cached, cache, playback, ops, hist>>

\* The awaited value arrives and the generator is resumed with it, or the
\* awaited promise rejects.
NextResumeValue(c) ==
    /\ running = 0
    /\ calls[c].pc = "next_await_value"
    /\ \/ RunStep(c, calls[c], Now, "resolved")
       \/ Commit(c, Thrown(calls[c], "yielded"), Now) /\ running' = 0
    /\ UNCHANGED <<cached, cache, playback, ops, hist>>

\* A handle registered by a pass of another scene; its promise fulfils.
Foreign == "foreign"

AllFulfil(handles) ==
    \A i \in 1..Len(handles) : handles[i] \in {"fulfils", Foreign}
SomeRejects(handles) == \E i \in 1..Len(handles) : handles[i] = "rejects"

\* await Promise.all(handles) in next(): then the error is logged and
\* next() ends.
NextResumeHandles(c) ==
    /\ running = 0
    /\ calls[c].pc = "next_await_handles"
    /\ \/ /\ AllFulfil(calls[c].promises)
          /\ Commit(c, Returned(calls[c]),
                    FinishIfDone(calls[c], [Now EXCEPT !.logger = ErrorUnready(@)]))
       \/ /\ SomeRejects(calls[c].promises)
          /\ Commit(c, Thrown(calls[c], "handle"), Now)
    /\ UNCHANGED <<cached, cache, playback, running, ops, hist>>

\* -------------------------------------------------------------- reset()
\* A reset() that would start the cache afresh.
CapturedAfresh(cch) == CachedSceneData(playback.frame, 0, 0, playback.frame)

\* reset() captures the playback frame as firstFrame when it differs.
Captured(cch) ==
    IF cch.firstFrame # playback.frame
    THEN [cch EXCEPT !.firstFrame = playback.frame]
    ELSE cch

\* A reset() that would publish the cache whether or not the frame differs.
CaptureAlwaysPublished(ev, cch) == Publish(ev, Captured(cch))

\* The cache is assigned, and so published, only when firstFrame differs
\* from the playback frame.
CapturePublished(ev, cch) ==
    IF cch.firstFrame # playback.frame THEN Publish(ev, Captured(cch)) ELSE ev

\* this.afterReset.dispatch(): the subscribers run and find the scene as it is.
afterReset(u) ==
    [u EXCEPT !.events.reset = @ + 1,
              !.events.resetSaw = <<[state |-> u.state, runner |-> u.runner]>>]

\* A reset() that would dispatch the event before it sets the state.
RespawnedAfterDispatch(u) ==
    [afterReset([u EXCEPT !.runner = NewRunner])
        EXCEPT !.state = "AfterTransitionIn"]

\* this.runner = threads(...); this.state = AfterTransitionIn;
\* this.afterReset.dispatch()
Respawned(u) ==
    afterReset([u EXCEPT !.runner = NewRunner, !.state = "AfterTransitionIn"])

\* A reset() that would call return() on the generator it replaces.
DiscardedWithReturn(u) ==
    IF u.runnerFactory = AnyFactory \/ ~u.runner.live THEN u
    ELSE [u EXCEPT !.record.discarded =
            Append(@, [runner |-> [u.runner EXCEPT !.done = TRUE],
                       cleanup |-> "return"])]

\* this.runner = threads(...) drops the only reference to the generator the
\* scene had: it stays as it was left and nothing is invoked on it.
Discarded(u) ==
    IF u.runnerFactory = AnyFactory \/ ~u.runner.live THEN u
    ELSE [u EXCEPT !.record.discarded =
            Append(@, [runner |-> u.runner, cleanup |-> "none"])]

\* A reset() that would go on with the random source it has.
ReseededCountersOnly(u) == [u EXCEPT !.counters = NoCounters]

\* this.counters = {}; this.random = new Random(this.meta.seed.get())
Reseeded(u) ==
    [u EXCEPT !.counters = NoCounters, !.random = NewRandom,
              !.record.resets = IF u.runnerFactory = AnyFactory THEN @ ELSE @ + 1]

\* reset() run by call c with frame f, on the cache value cch and the
\* scene u: capture the frame, fresh root thread, AfterTransitionIn, the
\* reset event, then next() on the fresh runner.
ResetBody(c, f, cch, u) ==
    LET ev == CapturePublished(u.events, cch)
    IN  /\ cache' = Captured(cch)
        /\ RunStep(c, [f EXCEPT !.ret = <<"reset_await_next">> \o @,
                                !.nexts = @ + 1],
                   Respawned(Discarded(Reseeded([u EXCEPT !.events = ev]))),
                   "undefined")

\* reset() called by the player.
StartReset(c) ==
    /\ Ready
    /\ ops' = ops + 1
    /\ ResetBody(c, NewCall("reset"), cache, Fresh)
    /\ UNCHANGED <<cached, playback, hist>>

\* reset() continues after `await this.next()` and returns.
ResetReturn(c) ==
    /\ running = 0
    /\ calls[c].pc = "reset_await_next"
    /\ Commit(c, Returned(calls[c]), Now)
    /\ UNCHANGED <<cached, cache, playback, running, ops, hist>>

\* -------------------------------------------------------- recalculate()
\* A recalculate() that would keep the frames it computed.
NotRelocated(cch) == cch

\* The in-place update recalculate() starts with.
Relocated(cch) ==
    [cch EXCEPT !.firstFrame = playback.frame,
                !.lastFrame = playback.frame + cch.duration]

\* A short-circuit that would also announce a recalculation.
RepublishAndAnnounce(u) ==
    [u EXCEPT !.events = [Publish(@, cache) EXCEPT !.recalculated = @ + 1]]

\* this.cache.current = {...cached}
Republish(u) == [u EXCEPT !.events = Publish(@, Relocated(cache))]

\* recalculate() on a cached scene: report lastFrame, republish, return.
RecalculateCached(c) ==
    /\ Ready
    /\ ops' = ops + 1
    /\ isCached
    /\ Relocated(cache).lastFrame <= MaxFrame
    /\ cache' = Relocated(cache)
    /\ playback' = [frame |-> Relocated(cache).lastFrame]
    /\ Commit(c, [NewCall("recalculate") EXCEPT
                     !.pc = "done", !.path = "cached",
                     !.setFrames = <<Relocated(cache).lastFrame>>],
              Republish(Fresh))
    /\ hist' = [hist EXCEPT !.cachedCalls = IF @ < 2 THEN @ + 1 ELSE @]
    /\ UNCHANGED <<cached, running>>

\* A recalculate() that would run the scene again although it is cached.
RecalculateAnew(c) ==
    /\ Ready
    /\ ops' = ops + 1
    /\ playback.frame + MaxSteps <= MaxFrame
    /\ ResetBody(c, [NewCall("recalculate") EXCEPT !.path = "uncached",
                                                   !.ret = <<"recalc_loop">>],
                 [Relocated(cache) EXCEPT !.transitionDuration = -1],
                 Fresh)
    /\ UNCHANGED <<cached, playback, hist>>

\* recalculate() on a scene that is not cached: the sentinel, then reset().
RecalculateUncached(c) ==
    /\ Ready
    /\ ops' = ops + 1
    /\ ~isCached
    /\ playback.frame + MaxSteps <= MaxFrame
    /\ ResetBody(c, [NewCall("recalculate") EXCEPT !.path = "uncached",
                                                   !.ret = <<"recalc_loop">>],
                 [Relocated(cache) EXCEPT !.transitionDuration = -1],
                 Fresh)
    /\ UNCHANGED <<cached, playback, hist>>

\* A frame loop that would skip a frame.
SkippedFrame == playback.frame + 2

\* setFrame(this.playback.frame + 1)
AdvancedFrame == playback.frame + 1

\* A frame loop that would go on for a scene that has finished.
LoopsUnlessMarked == state # "CanTransitionOut"

\* while (!this.canTransitionOut())
LoopsOn == ~canTransitionOut

\* The frame loop, entered after `await this.reset()` and after each
\* `await this.next()`: one more frame while the scene cannot transition out.
RecalculateAdvance(c) ==
    /\ running = 0
    /\ calls[c].pc = "recalc_loop"
    /\ LoopsOn
    /\ AdvancedFrame <= MaxFrame
    /\ cache' = [cache EXCEPT !.transitionDuration =
                    IF @ < 0 /\ state = "AfterTransitionIn"
                    THEN playback.frame - cache.firstFrame ELSE @]
    /\ playback' = [frame |-> AdvancedFrame]
    /\ LET f == [calls[c] EXCEPT !.setFrames = Append(@, AdvancedFrame)]
       IN  IF ~runner.live
           THEN Commit(c, [f EXCEPT !.nexts = @ + 1], Now) /\ running' = 0
           ELSE RunStep(c, [f EXCEPT !.ret = <<"recalc_loop">> \o @,
                                    !.nexts = @ + 1],
                        [Now EXCEPT !.frame = AdvancedFrame], "undefined")
    /\ UNCHANGED <<cached, ops, hist>>

\* The loop ends: the cache is completed and recalculate() pauses.
RecalculateMeasure(c) ==
    /\ running = 0
    /\ calls[c].pc = "recalc_loop"
    /\ ~LoopsOn
    /\ cache' = [cache EXCEPT
                    !.transitionDuration = IF @ = -1 THEN 0 ELSE @,
                    !.lastFrame = playback.frame,
                    !.duration = playback.frame - cache.firstFrame]
    /\ Commit(c, [calls[c] EXCEPT !.pc = "recalc_timeout"], Now)
    /\ UNCHANGED <<cached, playback, running, ops, hist>>

\* recalculated.dispatch(): the subscribers find the cached flag and the
\* published cache as they are at that moment.
recalculated(w) ==
    [w EXCEPT !.events.recalculated = @ + 1,
              !.events.recalculatedSaw =
                  <<[cached |-> w.cached, published |-> w.events.published]>>]

\* A finalization that would dispatch recalculated before it sets the flag
\* and publishes the cache.
FinalizedAfterDispatch(w, cch) ==
    [recalculated(w) EXCEPT !.cached = TRUE, !.events = Publish(@, cch)]

\* The end of recalculate(): the flag, the publication, then the event.
Finalized(w, cch) ==
    recalculated([w EXCEPT !.cached = TRUE, !.events = Publish(@, cch)])

\* After the pause: cached, the cache is published, recalculated fires.
RecalculateFinalize(c) ==
    /\ running = 0
    /\ calls[c].pc = "recalc_timeout"
    /\ LET w == Finalized([cached |-> cached, events |-> events], cache)
       IN  /\ cached' = w.cached
           /\ Commit(c, Returned(calls[c]), [Now EXCEPT !.events = w.events])
    /\ hist' = [hist EXCEPT !.frozen = <<cache>>, !.cachedCalls = 0]
    /\ UNCHANGED <<cache, playback, running, ops>>

\* ------------------------------------------------------------- render()
\* render() called by the player: the handles left pending are consumed and
\* the first iteration awaits them.
StartRender(c) ==
    /\ Ready
    /\ ops' = ops + 1
    /\ Commit(c, [NewCall("render") EXCEPT !.promises = promises,
                                           !.iterations = 1,
                                           !.pc = "render_await"],
              consumePromises(Fresh))
    /\ running' = 0
    /\ UNCHANGED <<cached, cache, playback, hist>>

\* A render() that would retry whether or not handles are pending.
RetriesToTheBound(g) == g.iterations < MaxRenderIterations

\* while (promises.length > 0 && iterations < 10)
Retries(g) == Len(g.promises) > 0 /\ g.iterations < MaxRenderIterations

\* One pass of render() after `await Promise.all(handles)`: the draw
\* callback runs and registers `effects`; then the handles of the pass are
\* consumed and render() retries, or logs and returns.
DrawPass(c, f, effects, outcome) ==
    LET u == execute(Now, effects, outcome)
        g == [f EXCEPT !.draws = @ + 1,
                       !.promises = u.promises,
                       !.firstClean = IF @ = 0 /\ Len(u.promises) = 0
                                      THEN f.draws + 1 ELSE @]
    IN  CASE outcome = "throw" -> Commit(c, Thrown(f, "user"), u)
          [] outcome = "return" ->
                IF Retries(g)
                THEN Commit(c, [g EXCEPT !.iterations = @ + 1,
                                         !.pc = "render_await"],
                            consumePromises(u))
                ELSE Commit(c, Returned(g),
                            consumePromises(
                                IF g.iterations > 1
                                THEN [u EXCEPT !.logger =
                                        DebugIterations(@, g.iterations)]
                                ELSE u))

\* await Promise.all(handles) in render() settles.
RenderDraw(c) ==
    /\ running = 0
    /\ calls[c].pc = "render_await"
    /\ \/ /\ AllFulfil(calls[c].promises)
          /\ \E effects \in DrawEffects, outcome \in {"return", "throw"} :
                /\ Len(promises) + Len(effects) <= MaxPending
                /\ DrawPass(c, calls[c], effects, outcome)
       \/ /\ SomeRejects(calls[c].promises)
          /\ Commit(c, Thrown(calls[c], "handle"), Now)
    /\ UNCHANGED <<cached, cache, playback, running, ops, hist>>

Next ==
    \/ \E name \in EnterNames : ExternalEnter(name)
    \/ \E f \in 0..MaxSeek : Seek(f)
    \/ Reload
    \/ \E c \in CallIds : StartNext(c)
    \/ \E c \in CallIds : NextInvalidValue(c)
    \/ \E c \in CallIds : NextResumeValue(c)
    \/ \E c \in CallIds : NextResumeHandles(c)
    \/ \E c \in CallIds : StartReset(c)
    \/ \E c \in CallIds : ResetReturn(c)
    \/ \E c \in CallIds : RecalculateCached(c)
    \/ \E c \in CallIds : RecalculateUncached(c)
    \/ \E c \in CallIds : RecalculateAdvance(c)
    \/ \E c \in CallIds : RecalculateMeasure(c)
    \/ \E c \in CallIds : RecalculateFinalize(c)
    \/ \E c \in CallIds : StartRender(c)
    \/ \E c \in CallIds : RenderDraw(c)

Spec == Init /\ [][Next]_vars

\* The event loop runs every continuation whose awaited promise has settled:
\* a call that can continue does continue.
Continues(c) ==
    \/ NextInvalidValue(c)
    \/ NextResumeValue(c)
    \/ NextResumeHandles(c)
    \/ ResetReturn(c)
    \/ RecalculateAdvance(c)
    \/ RecalculateMeasure(c)
    \/ RecalculateFinalize(c)
    \/ RenderDraw(c)

SpecLive == Init /\ [][Next]_vars /\ \A c \in CallIds : WF_vars(Continues(c))

\* Another scene of the same process runs a generator step that registers a
\* handle and is suspended on the value it yielded: the handle stays in the
\* registry, which is one for all scenes.
OtherSceneCollects ==
    /\ running = 0
    /\ Len(promises) < MaxPending
    /\ promises' = Append(promises, Foreign)
    /\ UNCHANGED <<state, cached, cache, runner, playback, calls, running,
                   logger, events, entered, context, ops, hist, random,
                   counters, runnerFactory, record, moblur>>

\* The other scene reaches consumePromises() in its next() or render() and
\* takes whatever the registry holds.
OtherSceneConsumes ==
    /\ running = 0
    /\ promises # <<>>
    /\ promises' = <<>>
    /\ UNCHANGED <<state, cached, cache, runner, playback, calls, running,
                   logger, events, entered, context, ops, hist, random,
                   counters, runnerFactory, record, moblur>>

\* The scene next to another scene: the calls on each scene are awaited,
\* the passes of the two interleave at their awaits.
NextShared ==
    \/ \E c \in CallIds : StartNext(c)
    \/ \E c \in CallIds : NextInvalidValue(c)
    \/ \E c \in CallIds : NextResumeValue(c)
    \/ \E c \in CallIds : NextResumeHandles(c)
    \/ \E c \in CallIds : StartReset(c)
    \/ \E c \in CallIds : ResetReturn(c)
    \/ \E c \in CallIds : StartRender(c)
    \/ \E c \in CallIds : RenderDraw(c)
    \/ OtherSceneCollects
    \/ OtherSceneConsumes

SpecShared == Init /\ [][NextShared]_vars

\* ----------------------------------------------------- MoblurRenderer
sceneVars == <<state, cached, cache, runner, playback, promises, calls,
               running, logger, events, entered, context, ops, hist, random,
               counters, runnerFactory, record>>

\* No render() of the renderer is in flight; what is kept of the last one
\* is dropped when the player next touches the renderer or the playback.
MoblurSettled == moblur.pc \in {"idle", "done", "threw"}

\* One call render() makes: on the playback manager (seek with its target,
\* advanceTime) or the render callback, the latter two with the sample index.
Called(name, arg) == [call |-> name, arg |-> arg]

\* configure(size, samples, duration), between two render() calls.
configure(samples, duration) ==
    /\ MoblurSettled
    /\ moblur' = [moblur EXCEPT !.sampleCount = samples, !.duration = duration,
                                !.pc = "idle", !.log = <<>>]
    /\ UNCHANGED sceneVars

\* The player sets the speed and moves the playhead between two render()
\* calls.
MoblurPlayback(speed, frame) ==
    /\ MoblurSettled
    /\ moblur' = [moblur EXCEPT
                    !.playback = [speed |-> [num |-> speed, den |-> 1],
                                  frame |-> frame, advances |-> 0],
                    !.pc = "idle", !.log = <<>>]
    /\ moblur'.playback # moblur.playback
    /\ UNCHANGED sceneVars

\* render() up to `await playback.seek(playback.frame)`.
MoblurRender ==
    /\ MoblurSettled
    /\ moblur' = [moblur EXCEPT
                    !.pc = "await_seek",
                    !.i = 0,
                    !.currentFrame = moblur.playback.frame,
                    !.previousSpeed = moblur.playback.speed,
                    !.playback.speed = [num |-> moblur.duration,
                                        den |-> moblur.sampleCount],
                    !.log = <<Called("seek", moblur.playback.frame)>>,
                    !.before = [speed |-> moblur.playback.speed,
                                frame |-> moblur.playback.frame]]
    /\ UNCHANGED sceneVars

\* A render() that would leave the playback at the speed of the samples.
FinishedAtSampleSpeed(m) ==
    [m EXCEPT !.pc = "await_final_seek",
              !.log = Append(@, Called("seek", m.currentFrame))]

\* After the loop: playback.speed = previousSpeed, then
\* `await playback.seek(currentFrame)`.
Finished(m) ==
    [m EXCEPT !.pc = "await_final_seek",
              !.playback.speed = m.previousSpeed,
              !.log = Append(@, Called("seek", m.currentFrame))]

\* The loop test `i < this.sampleCount`: the callback is invoked and
\* awaited, or the loop ends.
LoopTest(m) ==
    IF m.i < m.sampleCount
    THEN [m EXCEPT !.pc = "await_callback",
                   !.log = Append(@, Called("renderCallback", m.i))]
    ELSE Finished(m)

\* playback.seek(frame) has moved the playhead.
Sought(m, frame) == [m EXCEPT !.playback.frame = frame, !.playback.advances = 0]

\* The first seek resolves: the canvases are cleared and the loop begins.
MoblurAfterSeek ==
    /\ moblur.pc = "await_seek"
    /\ moblur' = LoopTest(Sought(moblur, moblur.currentFrame))
    /\ UNCHANGED sceneVars

\* `await renderCallback()` settles: playback.advanceTime() is called, or
\* the rejection leaves render().
MoblurAfterCallback ==
    /\ moblur.pc = "await_callback"
    /\ \/ moblur' = [moblur EXCEPT
                        !.pc = "await_advance",
                        !.playback.advances = @ + 1,
                        !.log = Append(@, Called("advanceTime", moblur.i))]
       \/ moblur' = [moblur EXCEPT !.pc = "threw"]
    /\ UNCHANGED sceneVars

\* `await playback.advanceTime()` resolves: the sample is stored, i++.
MoblurAfterAdvance ==
    /\ moblur.pc = "await_advance"
    /\ moblur' = LoopTest([moblur EXCEPT !.i = @ + 1])
    /\ UNCHANGED sceneVars

\* The final seek resolves: the result is copied and render() returns.
MoblurAfterFinalSeek ==
    /\ moblur.pc = "await_final_seek"
    /\ moblur' = [Sought(moblur, moblur.currentFrame) EXCEPT !.pc = "done"]
    /\ UNCHANGED sceneVars

NextMoblur ==
    \/ \E samples \in 0..MaxSamples, duration \in 1..2 :
            configure(samples, duration)
    \/ \E speed \in 1..2, frame \in 0..1 : MoblurPlayback(speed, frame)
    \/ MoblurRender
    \/ MoblurAfterSeek
    \/ MoblurAfterCallback
    \/ MoblurAfterAdvance
    \/ MoblurAfterFinalSeek

SpecMoblur == Init /\ [][NextMoblur]_vars

\* The scene driven by callers that start next() and reset() without
\* awaiting the calls in progress: a call may begin whenever no synchronous
\* stretch is running.
InitAsync == Begin(AsyncCallIds, AnyFactory)

NextAsync ==
    \/ \E c \in AsyncCallIds : Free(c) /\ StartNext(c)
    \/ \E c \in AsyncCallIds : NextInvalidValue(c)
    \/ \E c \in AsyncCallIds : NextResumeValue(c)
    \/ \E c \in AsyncCallIds : NextResumeHandles(c)
    \/ \E c \in AsyncCallIds : Free(c) /\ StartReset(c)
    \/ \E c \in AsyncCallIds : ResetReturn(c)

SpecAsync == InitAsync /\ [][NextAsync]_vars

\* The scene with a fixed seed and a fixed runner factory, run again and
\* again from the same playback frame: reset(), then next() after next().
InitRuns == Begin(CallIds, FixedFactory)

NextRuns ==
    \/ \E c \in CallIds : StartReset(c)
    \/ \E c \in CallIds : ResetReturn(c)
    \/ \E c \in CallIds : StartNext(c)
    \/ \E c \in CallIds : NextInvalidValue(c)
    \/ \E c \in CallIds : NextResumeValue(c)
    \/ \E c \in CallIds : NextResumeHandles(c)

SpecRuns == InitRuns /\ [][NextRuns]_vars

\* ------------------------------------------------------------ properties
\* C1. enterCanTransitionOut(): from AfterTransitionIn or Initial the state
\* becomes CanTransitionOut; from Finished or CanTransitionOut the call
\* leaves the state unchanged and logs exactly one warning.
C1_EnterCanTransitionOut ==
    entered.name = "enterCanTransitionOut" =>
        IF entered.from \in {"AfterTransitionIn", "Initial"}
        THEN state = "CanTransitionOut" /\ logger.unexpected = 0
        ELSE state = entered.from /\ logger.unexpected = 1

\* enterCanTransitionOut() was called on a finished scene.
C1_Witness ==
    /\ entered.name = "enterCanTransitionOut"
    /\ entered.from = "Finished"
    /\ state = "Finished"
    /\ logger.unexpected = 1

\* C2. enterInitial() changes the state, to Initial, only from
\* AfterTransitionIn; enterAfterTransitionIn() changes it, to
\* AfterTransitionIn, only from Initial; in any other state each leaves the
\* state unchanged and logs a warning. No enter* call moves a scene out of
\* Finished.
C2_EnterInitialAndAfterTransitionIn ==
    /\ entered.name = "enterInitial" =>
          IF entered.from = "AfterTransitionIn"
          THEN state = "Initial" /\ logger.unexpected = 0
          ELSE state = entered.from /\ logger.unexpected = 1
    /\ entered.name = "enterAfterTransitionIn" =>
          IF entered.from = "Initial"
          THEN state = "AfterTransitionIn" /\ logger.unexpected = 0
          ELSE state = entered.from /\ logger.unexpected = 1
    /\ entered.name # "none" /\ entered.from = "Finished" => state = "Finished"

\* enterInitial() was called on a finished scene.
C2_Witness ==
    /\ entered.name = "enterInitial"
    /\ entered.from = "Finished"
    /\ state = "Finished"
    /\ logger.unexpected = 1

\* A next() of call c has just returned: to the player, to reset(), or to
\* the frame loop of recalculate().
NextReturned(c) ==
    \/ calls[c].op = "next" /\ calls[c].pc = "done"
    \/ calls[c].pc \in {"reset_await_next", "recalc_loop"}

\* C3. A next() that observed the generator complete returns with the state
\* Finished; the state becomes Finished only when such a next() returns, and
\* is Finished only when the generator has completed.
C3_FinishedByNext ==
    [][/\ \A c \in CallIds :
            NextReturned(c)' /\ calls'[c].done => state' = "Finished"
       /\ state' = "Finished" /\ state # "Finished" =>
            \E c \in CallIds : NextReturned(c)' /\ calls'[c].done
       /\ state' = "Finished" => runner'.done]_vars

\* A next() called by the player observed the completion and returned.
C3_Witness ==
    /\ calls[1].op = "next"
    /\ calls[1].pc = "done"
    /\ calls[1].done
    /\ state = "Finished"

C5_NoEvents ==
    \A c \in CallIds : calls[c].path = "cached" /\ hist.cachedCalls = 2 =>
        /\ events.cache = 0
        /\ events.recalculated = 0
        /\ events.reset = 0
        /\ events.thread = 0

\* C5. A recalculate() on a cached scene republishes the cache, which
\* notifies the cache-changed subscribers once, and fires none of
\* recalculated, reset and thread-changed.
C5_OnlyCacheChanged ==
    \A c \in CallIds : calls[c].path = "cached" =>
        /\ events.cache = 1
        /\ events.published = <<cache>>
        /\ events.recalculated = 0
        /\ events.reset = 0
        /\ events.thread = 0

\* The second recalculate() in a row on a cached scene has notified.
C5_Witness ==
    /\ calls[1].path = "cached"
    /\ calls[1].pc = "done"
    /\ hist.cachedCalls = 2
    /\ events.cache = 1

\* C6 as stated: while cached, the four cache fields keep the values of the
\* recalculation that set cached, until reload().
C6_FourFieldsFrozen == cached => cache = hist.frozen[1]

\* C6. While cached, until reload(), duration and transitionDuration keep
\* the values of the recalculation that set cached; firstFrame is the
\* playback frame of the last reset() or recalculate().
C6_DurationsFrozen ==
    cached =>
        /\ hist.frozen # <<>>
        /\ cache.duration = hist.frozen[1].duration
        /\ cache.transitionDuration = hist.frozen[1].transitionDuration
        /\ \A c \in CallIds :
              calls[c].op \in {"reset", "recalculate"} /\ calls[c].pc = "done"
                  => cache.firstFrame = calls[c].at

\* A reset() on a cached scene, at another frame, has moved firstFrame.
C6_Witness ==
    /\ cached
    /\ calls[1].op = "reset"
    /\ calls[1].pc = "done"
    /\ cache.firstFrame # hist.frozen[1].firstFrame
    /\ cache.duration > 0

\* C7. In an uncached recalculate() the frames passed to setFrame are
\* firstFrame + 1, firstFrame + 2, ... and the playback follows them.
C7_FrameAdvance ==
    \A c \in CallIds : calls[c].path = "uncached" =>
        /\ \A i \in 1..Len(calls[c].setFrames) :
              calls[c].setFrames[i] = cache.firstFrame + i
        /\ playback.frame = cache.firstFrame + Len(calls[c].setFrames)

\* An uncached recalculate() that advanced two frames has completed.
C7_Witness ==
    /\ calls[1].path = "uncached"
    /\ calls[1].pc = "done"
    /\ Len(calls[1].setFrames) = 2

\* C8. A render() whose first draw pass registering no handle is pass k has
\* drawn exactly k times when it returns; it has logged "render iterations: k"
\* when k > 1 and nothing when k = 1.
C8_RetryConvergence ==
    \A c \in CallIds :
        calls[c].op = "render" /\ calls[c].pc = "done" /\ calls[c].firstClean > 0 =>
            /\ calls[c].firstClean <= MaxRenderIterations
            /\ calls[c].draws = calls[c].firstClean
            /\ logger = IF calls[c].firstClean > 1
                        THEN DebugIterations(NoLogs, calls[c].firstClean)
                        ELSE NoLogs

\* A dependency not ready at the first draw and ready at the second.
C8_Witness ==
    /\ calls[1].op = "render"
    /\ calls[1].pc = "done"
    /\ calls[1].firstClean = 2
    /\ calls[1].draws = 2
    /\ logger.iterations = <<2>>

\* C9 as stated: a render() draws at most ten times and, once a draw pass
\* has registered handles, never waits for them for ever.
C9_RenderCompletes ==
    \A c \in CallIds : calls[c].op = "render" =>
        /\ calls[c].draws <= MaxRenderIterations
        /\ calls[c].pc = "render_await" /\ calls[c].draws > 0 =>
              AllFulfil(calls[c].promises) \/ SomeRejects(calls[c].promises)

\* C10 as stated: no next() or render() fails because of the way the promise
\* of a pending handle settles.
C10_HandlesNeverFail ==
    \A c \in CallIds : calls[c].pc = "threw" => calls[c].cause # "handle"

\* C11. A generator of two steps, the first yielding nothing and the second
\* completing without a value: after reset(), one next() takes the state from
\* AfterTransitionIn to Finished in one stretch, and isFinished() and
\* canTransitionOut() are then true.
C11_TwoStepScenario ==
    [][(/\ calls[1].op = "reset" /\ calls[1].pc = "done"
        /\ runner.yields = 1 /\ ~runner.done
        /\ state = "AfterTransitionIn"
        /\ calls'[1].op = "next" /\ calls'[1].pc = "done" /\ calls'[1].done)
       => state' = "Finished" /\ isFinished' /\ canTransitionOut']_vars

\* reset() ran the first step, the next() after it the second and last.
C11_Witness ==
    /\ ops = 2
    /\ calls[1].op = "next" /\ calls[1].pc = "done" /\ calls[1].updates = 1
    /\ runner.done /\ runner.yields = 1
    /\ logger = NoLogs
    /\ isFinished /\ canTransitionOut

\* C14. Every generator resumption and every draw runs with the scene and
\* its playback pushed as the current context, and every execute() leaves the
\* context stacks as they were, whether the callback returned or threw: no
\* entry is held while a call is suspended at an await or has settled.
C14_ScopedContext ==
    /\ context.stack = <<>>
    /\ context.seen \in {<<>>, <<"scene", "playback">>}
    /\ runner.started => context.seen = <<"scene", "playback">>
    /\ \A c \in CallIds : calls[c].draws > 0 => context.seen = <<"scene", "playback">>

\* User code threw inside execute() and the stacks are empty again.
C14_Witness ==
    /\ calls[1].pc = "threw"
    /\ calls[1].cause = "user"
    /\ context.seen = <<"scene", "playback">>
    /\ context.stack = <<>>

\* C15. next() on a scene that has no runner (never reset) changes nothing:
\* the state, the cache, the cached flag, the runner and the pending handles
\* stay as they are, update() is not called, nothing is logged or dispatched.
C15_NextWithoutRunner ==
    [][\A c \in CallIds :
        (ops' = ops + 1 /\ calls'[c].op = "next" /\ ~runner.live) =>
            /\ calls'[c].pc = "done"
            /\ calls'[c].updates = 0
            /\ state' = state
            /\ cache' = cache
            /\ cached' = cached
            /\ runner' = runner
            /\ promises' = promises
            /\ playback' = playback
            /\ logger' = NoLogs
            /\ events' = NoEvents]_vars

\* next() returned on a scene without a runner, handles still pending.
C15_Witness ==
    /\ calls[1].op = "next"
    /\ calls[1].pc = "done"
    /\ ~runner.live
    /\ calls[1].updates = 0
    /\ Len(promises) > 0

\* C16. Every reset(), called by the player or by recalculate(), dispatches
\* the reset event exactly once, when the runner is fresh (no step has run)
\* and the state is AfterTransitionIn, and then makes exactly one next().
C16_ResetOrdering ==
    \A c \in CallIds :
        calls[c].op = "reset" \/ calls[c].path = "uncached" =>
            /\ events.reset = 1
            /\ events.resetSaw =
                  <<[state |-> "AfterTransitionIn", runner |-> NewRunner]>>
            /\ calls[c].op = "reset" /\ calls[c].pc # "threw" =>
                  calls[c].nexts = 1
            /\ calls[c].path = "uncached" =>
                  calls[c].nexts = 1 + Len(calls[c].setFrames)

\* A reset() whose only next() took the scene on to Finished.
C16_Witness ==
    /\ calls[1].op = "reset"
    /\ calls[1].pc = "done"
    /\ calls[1].nexts = 1
    /\ events.reset = 1
    /\ events.resetSaw[1].state = "AfterTransitionIn"
    /\ runner.started
    /\ state = "Finished"

\* C17. An uncached recalculate() fixes transitionDuration to the distance
\* from firstFrame of the first frame at which the state becomes
\* AfterTransitionIn, and to 0 when the state never becomes AfterTransitionIn.
C17_TransitionDurationAtFirstEntry ==
    \A c \in CallIds :
        calls[c].path = "uncached" /\ calls[c].pc \in {"recalc_timeout", "done"} =>
            cache.transitionDuration =
                IF events.transitionedIn = <<>> THEN 0
                ELSE events.transitionedIn[1] - cache.firstFrame

\* C18. When an uncached recalculate() completes, the published cache has
\* lastFrame = the playback frame at loop exit and duration = lastFrame -
\* firstFrame, the scene is cached, and recalculated fired exactly once, when
\* the flag was already set and the cache already published.
C18_Finalization ==
    \A c \in CallIds :
        calls[c].path = "uncached" /\ calls[c].pc = "done" =>
            /\ events.published = <<cache>>
            /\ cache.lastFrame = playback.frame
            /\ cache.lastFrame =
                  IF calls[c].setFrames = <<>> THEN calls[c].at
                  ELSE calls[c].setFrames[Len(calls[c].setFrames)]
            /\ cache.duration = cache.lastFrame - cache.firstFrame
            /\ cache.transitionDuration >= 0
            /\ isCached
            /\ events.recalculated = 1
            /\ events.recalculatedSaw =
                  <<[cached |-> TRUE, published |-> <<cache>>]>>

\* An uncached recalculate() that advanced the playback completed.
C18_Witness ==
    /\ calls[1].path = "uncached"
    /\ calls[1].pc = "done"
    /\ Len(calls[1].setFrames) > 0
    /\ cache.duration > 0
    /\ events.recalculated = 1
    /\ isCached

\* C19 as stated: a next() that drained pending handles goes on, once they
\* settle, to log one error without aborting, and leaves the state as it
\* would be without them: Finished if the generator completed, else as it was.
C19_UnreadyLoggedNotFatal ==
    [][\A c \in CallIds :
        calls[c].pc = "next_await_handles" /\ calls'[c] # calls[c] =>
            /\ calls'[c].pc # "threw"
            /\ logger'.unready = logger.unready + 1
            /\ state' = IF calls[c].done THEN "Finished" ELSE state]_vars

C13_SequentialSteps ==
    [][\A c \in DOMAIN calls :
        calls[c].pc = "next_await_value" /\ calls'[c] = calls[c] =>
            runner' = runner]_vars

\* C12. With a fixed seed and a fixed runner factory, every run started by
\* reset() at the same playback frame yields the same values and passes
\* through the same states as the runs before it, step for step, and leaves
\* the same cache: reset() restores the random source, the counters, the
\* state and the runner.
C12_Determinism ==
    /\ ~record.diverged
    /\ runner.live =>
          cache = CachedSceneData(playback.frame, 0, 0, playback.frame)
    /\ \A c \in CallIds :
          calls[c].op = "reset" /\ calls[c].pc = "done" /\ calls[c].sent = "undefined" =>
              /\ random.drawn = 1
              /\ counters.taken = 1

\* A second run has repeated, step for step, a first run of two steps that
\* reached Finished.
C12_Witness ==
    /\ record.resets = 2
    /\ Len(record.seen) = 2
    /\ record.seen[2].value = "return"
    /\ state = "Finished"
    /\ random.drawn = 2
    /\ Quiet

\* The ranges of a cache value: frames and durations are not negative and
\* the transition is no longer than the scene.
InRange(cch) ==
    /\ cch.firstFrame >= 0
    /\ cch.duration >= 0
    /\ cch.lastFrame >= 0
    /\ 0 <= cch.transitionDuration
    /\ cch.transitionDuration <= cch.duration

\* C21 as stated: the cache of a cached scene, and every cache value
\* delivered to the cache-changed subscribers, is within the ranges; the
\* sentinel -1 is not seen outside a running recalculate().
C21_CacheRanges ==
    /\ isCached => InRange(cache)
    /\ \A i \in 1..Len(events.published) : InRange(events.published[i])

\* C22. reset() leaves the cache with firstFrame = the playback frame of the
\* call and with transitionDuration, duration and lastFrame as they were; it
\* publishes the new cache value, once, exactly when firstFrame differed
\* from that frame.
C22_ResetCapturesFrame ==
    [][\A c \in CallIds :
        ops' = ops + 1 /\ calls'[c].op = "reset" =>
            /\ playback' = playback
            /\ cache' = [cache EXCEPT !.firstFrame = playback.frame]
            /\ events'.cache = IF cache.firstFrame # playback.frame THEN 1 ELSE 0
            /\ events'.published =
                  IF cache.firstFrame # playback.frame THEN <<cache'>> ELSE <<>>]_vars

\* A reset() at a frame other than firstFrame published the cache with its
\* durations kept.
C22_Witness ==
    /\ calls[1].op = "reset"
    /\ calls[1].pc = "done"
    /\ events.cache = 1
    /\ events.published = <<cache>>
    /\ cache.firstFrame = playback.frame
    /\ cache.firstFrame > 0
    /\ cache.duration > 0

\* C23. The generator that reset() replaces is left as it was: whatever
\* calls follow, it is never resumed and neither return() nor throw() is
\* invoked on it.
C23_SilentCancellation ==
    [][\A i \in 1..Len(record'.discarded) :
        /\ record'.discarded[i].cleanup = "none"
        /\ i <= Len(record.discarded) =>
              record'.discarded[i] = record.discarded[i]]_vars

\* A generator was replaced in mid-run, and its successor has run to the end.
C23_Witness ==
    /\ Len(record.discarded) = 1
    /\ record.discarded[1].runner.yields = 1
    /\ ~record.discarded[1].runner.done
    /\ record.discarded[1].cleanup = "none"
    /\ runner.done
    /\ state = "Finished"

\* The uncached recalculate() of call c is under way.
Recalculating(c) ==
    /\ calls[c].op = "recalculate"
    /\ calls[c].path = "uncached"
    /\ ~Settled(c)

\* What call c awaits does not resolve: a handle that never settles.
AwaitsForever(c) ==
    /\ calls[c].pc = "next_await_handles"
    /\ ~AllFulfil(calls[c].promises)
    /\ ~SomeRejects(calls[c].promises)

\* C24. An uncached recalculate() whose awaited values all resolve ends, and
\* ends with the scene cached, unless user code or an awaited value throws;
\* its frame loop sets one more frame only while canTransitionOut() is false
\* and, once it holds, goes on to measure without another frame.
C24_RecalculationTerminates ==
    /\ [][\A c \in CallIds :
            Recalculating(c) /\ calls[c].pc = "recalc_loop" /\ calls'[c] # calls[c] =>
                IF canTransitionOut
                THEN /\ calls'[c].pc = "recalc_timeout"
                     /\ calls'[c].setFrames = calls[c].setFrames
                     /\ calls'[c].nexts = calls[c].nexts
                     /\ playback' = playback
                ELSE /\ calls'[c].pc # "recalc_timeout"
                     /\ playback'.frame = playback.frame + 1]_vars
    /\ \A c \in CallIds :
            Recalculating(c) ~>
                \/ calls[c].pc = "done" /\ calls[c].op = "recalculate" /\ isCached
                \/ calls[c].pc = "threw"
                \/ AwaitsForever(c)

\* An uncached recalculate() has run its frame loop over two frames and
\* returned with the scene cached.
C24_Witness ==
    /\ calls[1].op = "recalculate"
    /\ calls[1].path = "uncached"
    /\ calls[1].pc = "done"
    /\ Len(calls[1].setFrames) = 2
    /\ isCached
    /\ cache.duration = 2

\* C25. recalculate() on a cached scene calls setFrame once, with the
\* lastFrame of the cache, and returns at once: no reset(), no next(), no
\* step of the generator, and the state, the root thread and the cached flag
\* are as they were.
C25_CachedShortCircuit ==
    [][\A c \in CallIds :
        isCached /\ ops' = ops + 1 /\ calls'[c].op = "recalculate" =>
            /\ calls'[c].pc = "done"
            /\ calls'[c].setFrames = <<cache'.lastFrame>>
            /\ calls'[c].nexts = 0
            /\ events'.reset = 0
            /\ events'.thread = 0
            /\ runner' = runner
            /\ state' = state
            /\ cached' = cached]_vars

\* A cached scene whose generator is suspended in mid-run was recalculated.
C25_Witness ==
    /\ calls[1].op = "recalculate"
    /\ calls[1].path = "cached"
    /\ calls[1].pc = "done"
    /\ calls[1].setFrames = <<cache.lastFrame>>
    /\ isCached
    /\ runner.live
    /\ runner.yields > 0
    /\ ~runner.done

\* C26 as stated: a next() that was suspended at an await when reset() was
\* called neither steps the generator once it continues nor brings the
\* scene to Finished.
C26_NoStaleStep ==
    [][\A c \in DOMAIN calls :
        /\ calls[c].op = "next"
        /\ calls[c].pc \in {"next_await_value", "next_await_handles"}
        /\ events.reset > 0
        /\ calls'[c] # calls[c]
        => /\ runner' = runner
           /\ state' = "Finished" => state = "Finished"]_vars

\* C27 as stated: with another scene registering handles in the same
\* registry, the handles a next() or render() of this scene consumes, awaits
\* and reports are handles its own steps or draw pass registered, never a
\* handle of the other scene.
C27_PerPassScoping ==
    \A c \in DOMAIN calls :
        \A i \in 1..Len(calls[c].promises) : calls[c].promises[i] # Foreign

\* get lastFrame(): firstFrame + duration, set against the lastFrame field.
Consistent(cch) == cch.lastFrame = cch.firstFrame + cch.duration

\* C28 as stated: the cache, and every cache value delivered to the
\* cache-changed subscribers, has lastFrame = firstFrame + duration, so the
\* lastFrame getter agrees with the lastFrame field.
C28_CacheConsistency ==
    /\ Consistent(cache)
    /\ \A i \in 1..Len(events.published) : Consistent(events.published[i])

\* The calls of a render() of n samples at frame f: a seek to f, then the
\* callback and advanceTime() in turn for each sample, then a seek to f.
Protocol(n, f) ==
    [k \in 1..(2 * n + 2) |->
        IF k = 1 \/ k = 2 * n + 2 THEN Called("seek", f)
        ELSE IF k % 2 = 0 THEN Called("renderCallback", (k \div 2) - 1)
        ELSE Called("advanceTime", (k \div 2) - 1)]

\* C29. A render() that completes has invoked the callback sampleCount
\* times, each time followed by one advanceTime(), between a first seek to
\* the frame the playback stood at and a last seek back to it, and leaves
\* playback.speed as the call found it and the playhead at that frame.
C29_MoblurProtocol ==
    moblur.pc = "done" =>
        /\ moblur.log = Protocol(moblur.sampleCount, moblur.before.frame)
        /\ moblur.playback.speed = moblur.before.speed
        /\ moblur.playback.frame = moblur.before.frame
        /\ moblur.playback.advances = 0

\* A render() of three samples at frame 1 and speed 2 has completed.
C29_Witness ==
    /\ moblur.pc = "done"
    /\ moblur.sampleCount = 3
    /\ Len(moblur.log) = 8
    /\ moblur.before = [speed |-> [num |-> 2, den |-> 1], frame |-> 1]
    /\ moblur.playback.speed = [num |-> 2, den |-> 1]

====
